---- MODULE Spec2Model ----
(***************************************************************************)
(* Provably fair dice server (server.js), its seed-chain generator         *)
(* (generate_chain.js) and the client verifier (VerificationPanel.jsx).    *)
(*                                                                         *)
(* Seeds and digests are natural numbers.  chain index i of the source is  *)
(* position i+1 of the TLA+ sequence seedChain (see ChainAt).  Money and    *)
(* rolls are whole hundredths (1000.00 is 100000, a roll of 49.99 is 4999). *)
(***************************************************************************)
EXTENDS Integers, Sequences, FiniteSets, Bags, TLC

\* ------------------------------------------------------------------ bounds
MaxChainSize == 3      \* largest CHAIN_SIZE the generator is run with
MaxSlots     == 2      \* requests that can be in flight at once
MaxRestarts  == 1      \* process restarts explored by SpecRestart
MaxUnwritten == 1      \* accepted bets whose db.run statements are still queued
MaxUpdates   == 16     \* game-updates handed to the App by SpecHistory
MaxIterations == 16    \* loop iterations of bot.js before its time cap ends it

\* --------------------------------------------------------------- constants
DefaultBalance == 100000   \* users.balance REAL DEFAULT 1000.00
RollModulus    == 10001    \* resultInt % 10001
HalfWord       == 65536    \* 2^16: the 32-bit integer is kept as two halves
HouseEdge      == 9900     \* the 99 of 99 / (100 - target), in hundredths
FullTarget     == 10000    \* the 100 of 99 / (100 - target), in hundredths

NoSeed == -1               \* null returned by getCurrentSeed
NoRow  == -1               \* no row / no balance read yet

NoBetsYet == -2            \* the 'No bets yet' placeholder of the client
DbError   == -3            \* db.get called back with err
NotHex    == -4            \* a string that is not a 64-digit hex digest

UserIds     == {1}
AllUserIds  == {1, 2}              \* ids of the rows the users table can hold
Passwords   == {0, 7}              \* passwords users register with; 0 is a
                                   \* missing (empty) password
WrongPasswords == {8}              \* passwords no user registered with
ClientSeeds == {0, 1}
Secrets     == {1, 2}              \* values crypto.randomBytes(32) returns

\* A decoded BetRequest, or a body BetRequest.decode throws on.
Body(ok, amount, tgt, cond, cs) ==
    [decodes |-> ok, betAmount |-> amount, target |-> tgt, condition |-> cond,
     clientSeed |-> cs]

NoBody == Body(FALSE, 0, 0, "", 0)

\* the bodies clients send: an affordable bet, a non-positive and an
\* unaffordable amount, and an undecodable body
Bodies ==
    {Body(TRUE, 100, 5000, "over", 1), Body(TRUE, 0, 5000, "over", 0),
     Body(TRUE, 200000, 5000, "under", 0), NoBody}

VARIABLES
    seedChain,           \* chain.json as loaded by the server
    previousServerSeed,  \* the anchor served by /api/state
    gameIndex,           \* cursor into seedChain, also the nonce
    protoLoaded,         \* BetRequest / GameResponse have been looked up
    users,               \* users table: id -> row
    tokens,              \* user ids for which a JWT has been signed
    bets,                \* bets table: set of rows
    pendingUpdates,      \* UPDATE users statements issued and not yet executed
    pendingInserts,      \* INSERT INTO bets statements issued and not yet executed
    reqs,                \* /api/bet and /api/state requests in flight: a bag
                         \* of request records
    reply,               \* the answer sent by the last step to /api/bet or
                         \* /api/state (NoAnswer when the step sent none)
    emitted,             \* game-update broadcasts, in emission order
    anchorLog,           \* anchor served at the moment each bet was processed
    disclosed,           \* every seed sent out in a response or broadcast
    seen,                \* per user: what the last /api/state answer told the
                         \* client, until that user's next accepted bet
    epoch,               \* number of process restarts so far
    verifyProps,         \* props handed to VerificationPanel
    verificationResult,  \* what verifyLastBet displays
    hmacDigest,          \* an HMAC digest handed to the roll computation
    fairRoll,            \* <<the roll computed from hmacDigest>>, <<>> before
    received,            \* game-update broadcasts the client App has handled
    gen,                 \* generate_chain.js: its position and local variables
    chainJson,           \* the content of chain.json
    gameState,           \* App.jsx: balance, rollResult and isWin as displayed
    history,             \* App.jsx: the rows handed to HistoryTable
    updates,             \* every game-update the App has handled, oldest first
    bot                  \* bot.js: its position and module-level variables

vars == <<seedChain, previousServerSeed, gameIndex, protoLoaded, users, tokens,
          bets, pendingUpdates, pendingInserts, reqs, reply, emitted,
          anchorLog, disclosed, seen, epoch, verifyProps, verificationResult,
          hmacDigest, fairRoll, received, gen, chainJson, gameState, history,
          updates, bot>>

serverVars == <<seedChain, previousServerSeed, gameIndex, protoLoaded>>
dbVars     == <<users, bets, pendingUpdates, pendingInserts>>
histVars   == <<emitted, anchorLog, disclosed, seen>>
rollVars   == <<hmacDigest, fairRoll>>
genVars    == <<gen, chainJson>>
appVars    == <<gameState, history, updates>>
verVars    == <<verifyProps, verificationResult, rollVars, received, genVars,
                appVars, bot>>

\* ---------------------------------------------------------- cryptography
\* crypto.createHash('sha256').update(s).digest('hex'): a one-way function
\* without collisions or cycles on the digests the model handles.
Sha256(s) == 2 * s + 1

\* First four bytes of HMAC-SHA256(key = serverSeed, msg = clientSeed:nonce),
\* as the high and the low 16 bits of the big-endian 32-bit integer.
HmacHigh(serverSeed, clientSeed, nonce) ==
    (serverSeed * 40503 + clientSeed * 7919 + nonce * 30011 + 12345) % HalfWord

HmacLow(serverSeed, clientSeed, nonce) ==
    (serverSeed * 25173 + clientSeed * 13849 + nonce * 9973 + 54321) % HalfWord

\* bytes 4 and 5 of the same digest
HmacTail(serverSeed, clientSeed, nonce) ==
    (serverSeed * 12289 + clientSeed * 257 + nonce * 4099 + 4660) % HalfWord

\* HMAC-SHA256(key, message) with message = clientSeed:nonce, as the sequence
\* of the first six bytes of the digest
HmacSha256(key, clientSeed, nonce) ==
    <<HmacHigh(key, clientSeed, nonce) \div 256,
      HmacHigh(key, clientSeed, nonce) % 256,
      HmacLow(key, clientSeed, nonce) \div 256,
      HmacLow(key, clientSeed, nonce) % 256,
      HmacTail(key, clientSeed, nonce) \div 256,
      HmacTail(key, clientSeed, nonce) % 256>>

ModWordLoose(hi, lo, m) == ((hi * (HalfWord % m)) + lo) % (m + 1)
\* (hi * 2^16 + lo) % m without leaving 32-bit arithmetic
ModWord(hi, lo, m) == ((hi * (HalfWord % m)) + lo) % m

readUInt32LE(buffer, offset) ==
    <<buffer[offset + 4] * 256 + buffer[offset + 3],
      buffer[offset + 2] * 256 + buffer[offset + 1]>>
\* buffer.readUInt32BE(offset): the unsigned big-endian integer of the four
\* bytes from offset on, as its high and its low 16 bits
readUInt32BE(buffer, offset) ==
    <<buffer[offset + 1] * 256 + buffer[offset + 2],
      buffer[offset + 3] * 256 + buffer[offset + 4]>>

\* (buffer.readUInt32BE(0) % 10001) / 100, in hundredths
RollOf(buffer) ==
    LET resultInt == readUInt32BE(buffer, 0)
    IN  ModWord(resultInt[1], resultInt[2], RollModulus)

\* generateFairRoll: the roll of the HMAC-SHA256 digest of clientSeed:nonce
\* keyed with serverSeed
generateFairRoll(serverSeed, clientSeed, nonce) ==
    RollOf(HmacSha256(serverSeed, clientSeed, nonce))

\* byte values a digest is drawn from: they spell 0, 10000 (0x2710),
\* 10001 (0x2711), 2^31 - 1, 2^32 - 1 and their neighbours
DigestBytes == {0, 1, 16, 17, 39, 127, 255}
Digests == {<<a, b, c, d>> : a \in DigestBytes, b \in DigestBytes,
                             c \in DigestBytes, d \in DigestBytes}
NoDigest == <<0, 0, 0, 0>>

\* ------------------------------------------------------------- generator
RECURSIVE HashForward(_, _, _)
\* for (i = 0; i < CHAIN_SIZE; i++) { currentSeed = sha256(currentSeed); chain.push(currentSeed) }
HashForward(chain, currentSeed, n) ==
    IF n = 0 THEN chain
    ELSE HashForward(Append(chain, Sha256(currentSeed)), Sha256(currentSeed), n - 1)

KeepOrder(s) == s
\* chain.reverse()
Reverse(s) == [i \in 1..Len(s) |-> s[Len(s) + 1 - i]]

\* generate_chain.js run with CHAIN_SIZE = size and randomBytes = secret
GenerateChain(secret, size) == Reverse(HashForward(<<secret>>, secret, size))

GeneratedChains ==
    {GenerateChain(t, n) : t \in Secrets, n \in 1..MaxChainSize}

\* seedChain[i] of the source (0-based); undefined outside the array
ChainAt(i) == IF i + 1 \in DOMAIN seedChain THEN seedChain[i + 1] ELSE NoSeed

\* the local variables of generate_chain.js and the statement it is at
Gen(pc, size, randomBytes, currentSeed, chain, i) ==
    [pc |-> pc, CHAIN_SIZE |-> size, randomBytes |-> randomBytes,
     currentSeed |-> currentSeed, chain |-> chain, i |-> i]

\* no generator process
NoGen == Gen("exited", 0, NoSeed, NoSeed, <<>>, 0)

\* values crypto.randomBytes(32) returns to the generator
RandomBytes == 0..15

LoopGoesOnInclusive(i, size) == i <= size
\* the loop condition i < CHAIN_SIZE
LoopGoesOn(i, size) == i < size

\* every digest that occurs in a generated chain
ChainEntries == UNION {{chain[i] : i \in DOMAIN chain} : chain \in GeneratedChains}

\* ------------------------------------------------------- server helpers
getCurrentSeedWrap == ChainAt(gameIndex % Len(seedChain))
\* getCurrentSeed: null once the cursor has run off the chain
getCurrentSeed ==
    IF gameIndex >= Len(seedChain) THEN NoSeed ELSE ChainAt(gameIndex)

NextIndexSkip(g) == g + 2
NextIndexStuck(g) == g
\* gameIndex++
NextIndex(g) == g + 1

SeedChainOverwritten(chain) == [chain EXCEPT ![1] = chain[Len(chain)]]
\* the bet handler reads seedChain[gameIndex] and assigns nothing to the array
SeedChainKept(chain) == chain

KeepAnchor(anchor, seedUsed) == anchor
\* previousServerSeed = seedUsed
NextAnchor(anchor, seedUsed) == seedUsed

\* isWin of the bet handler
IsWinOnTie(condition, roll, target) ==
    \/ condition = "over" /\ roll >= target
    \/ condition = "under" /\ roll <= target
\* isWin: condition === 'over' && rollResult > target, or
\* condition === 'under' && rollResult < target
IsWin(condition, roll, target) ==
    \/ condition = "over" /\ roll > target
    \/ condition = "under" /\ roll < target

\* multiplier: 99 / (100 - target) for over, 99 / target for under; the payout
\* betAmount * multiplier is taken in whole hundredths
Payout(betAmount, condition, target) ==
    IF condition = "over"
    THEN (betAmount * HouseEdge) \div (FullTarget - target)
    ELSE (betAmount * HouseEdge) \div target

Profit(betAmount, condition, roll, target) ==
    IF IsWin(condition, roll, target)
    THEN Payout(betAmount, condition, target) - betAmount
    ELSE 0 - betAmount

\* newBalance = userBalance - betAmount (+ payout on a win)
NewBalance(userBalance, betAmount, condition, roll, target) ==
    IF IsWin(condition, roll, target)
    THEN userBalance - betAmount + Payout(betAmount, condition, target)
    ELSE userBalance - betAmount

ResponsePayloadClientNonce(userBalance, body, seedUsed, currentNonce) ==
    LET chosen == body.clientSeed + 1
        roll == generateFairRoll(seedUsed, body.clientSeed, chosen) IN
    [roll |-> roll,
     isWin |-> IsWin(body.condition, roll, body.target),
     profit |-> Profit(body.betAmount, body.condition, roll, body.target),
     newBalance |-> NewBalance(userBalance, body.betAmount, body.condition,
                               roll, body.target),
     betAmount |-> body.betAmount,
     serverSeedRevealed |-> seedUsed,
     clientSeed |-> body.clientSeed,
     nonce |-> chosen]
ResponsePayloadRigged(userBalance, body, seedUsed, currentNonce) ==
    LET roll == (generateFairRoll(seedUsed, body.clientSeed, currentNonce)
                 + body.betAmount) % RollModulus IN
    [roll |-> roll,
     isWin |-> IsWin(body.condition, roll, body.target),
     profit |-> Profit(body.betAmount, body.condition, roll, body.target),
     newBalance |-> NewBalance(userBalance, body.betAmount, body.condition,
                               roll, body.target),
     betAmount |-> body.betAmount,
     serverSeedRevealed |-> seedUsed,
     clientSeed |-> body.clientSeed,
     nonce |-> currentNonce]
\* responsePayload of an accepted bet
ResponsePayload(userBalance, body, seedUsed, currentNonce) ==
    LET roll == generateFairRoll(seedUsed, body.clientSeed, currentNonce) IN
    [roll |-> roll,
     isWin |-> IsWin(body.condition, roll, body.target),
     profit |-> Profit(body.betAmount, body.condition, roll, body.target),
     newBalance |-> NewBalance(userBalance, body.betAmount, body.condition,
                               roll, body.target),
     betAmount |-> body.betAmount,
     serverSeedRevealed |-> seedUsed,
     clientSeed |-> body.clientSeed,
     nonce |-> currentNonce]

\* the row of INSERT INTO bets
BetRow(user, body, seedUsed, currentNonce) ==
    LET roll == generateFairRoll(seedUsed, body.clientSeed, currentNonce) IN
    [user_id |-> user, nonce |-> currentNonce, bet_amount |-> body.betAmount,
     target |-> body.target, condition |-> body.condition, roll |-> roll,
     profit |-> Profit(body.betAmount, body.condition, roll, body.target),
     client_seed |-> body.clientSeed, server_seed |-> seedUsed]

\* bcrypt.hashSync / bcrypt.compareSync
BcryptHash(password) == 1000 + password
BcryptCompare(password, hash) == BcryptHash(password) = hash

\* a user id with no row in the users table, and a row as INSERT creates it
NoUser == [registered |-> FALSE, password_hash |-> 0, balance |-> NoRow]
UserRow(password) ==
    [registered |-> TRUE, password_hash |-> BcryptHash(password),
     balance |-> DefaultBalance]

\* a request between its db.get call and the callback
Request(route, pc, user, body, row) ==
    [route |-> route, pc |-> pc, user |-> user, body |-> body, row |-> row]

\* an answer: the error text (or "ok"), and for /api/state the snapshot
Answer(route, text, balance, anchor, nonce) ==
    [route |-> route, text |-> text, balance |-> balance,
     serverSeedHash |-> anchor, nonce |-> nonce]

BetAnswer(text) == Answer("bet", text, NoRow, NoSeed, 0)
NoAnswer == Answer("none", "", NoRow, NoSeed, 0)

\* no answer at all: a TypeError left the db.get callback, which nothing
\* catches, and the process is gone
Uncaught == Answer("uncaught", "TypeError", NoRow, NoSeed, 0)
Running == reply # Uncaught
\* props of VerificationPanel
Props(activeHash, lastSeed, lastNonce, lastClientSeed, actualRoll) ==
    [activeHash |-> activeHash, lastSeed |-> lastSeed, lastNonce |-> lastNonce,
     lastClientSeed |-> lastClientSeed, actualRoll |-> actualRoll]

NoProps == Props(NoSeed, NoBetsYet, 0, 0, 0)

\* what a client keeps of an /api/state answer: the nonce it carried, and how
\* many game-updates had been broadcast when it was sent
Seen(nonce, accepted) == [nonce |-> nonce, accepted |-> accepted]
NoSeen == Seen(0, 0)

\* ---------------------------------------------------------------- verifier
\* Number.prototype.toFixed(2) of a value held in hundredths: the integer
\* part and the two decimals
ToFixed0(h) == <<(h + 50) \div 100, 0>>
ToFixed2(h) == <<h \div 100, h % 100>>

\* hmac.toString(CryptoJS.enc.Hex): two hex digits per byte, high nibble
\* first, as a sequence of digit values
ToHex(bytes) ==
    [i \in 1..(2 * Len(bytes)) |->
        IF i % 2 = 1 THEN bytes[(i + 1) \div 2] \div 16
        ELSE bytes[i \div 2] % 16]

\* String.prototype.substring(from, to)
Substring(str, from, to) == SubSeq(str, from + 1, to)

RECURSIVE ParseHex(_)
\* the value of a string of at most four hex digits
ParseHex(digits) ==
    IF digits = <<>> THEN 0
    ELSE ParseHex(SubSeq(digits, 1, Len(digits) - 1)) * 16 + digits[Len(digits)]

\* parseInt(str, 16) of at most eight hex digits, as the high and the low
\* 16 bits of the value
ParseInt16(str) ==
    IF Len(str) <= 4 THEN <<0, ParseHex(str)>>
    ELSE <<ParseHex(SubSeq(str, 1, Len(str) - 4)),
           ParseHex(SubSeq(str, Len(str) - 3, Len(str)))>>

\* parseInt(hmac.toString(Hex).substring(0, 8), 16) % 10001 / 100
calculatedRoll(lastSeed, lastClientSeed, lastNonce) ==
    LET hmac == HmacSha256(lastSeed, lastClientSeed, lastNonce)
        decimalValue == ParseInt16(Substring(ToHex(hmac), 0, 8))
    IN  ModWord(decimalValue[1], decimalValue[2], RollModulus)

\* what verifyLastBet displays: nothing before the first bet, "Math Verified"
\* together with "Chain Hash ... (Valid)", or "MATH FAILED"
Shown(text, math, chain, hash) ==
    [text |-> text, mathValid |-> math, chainValid |-> chain, chainHash |-> hash]

NoResult == Shown("", FALSE, FALSE, NoSeed)

verifyLastBet(props) ==
    IF props.lastSeed = NoBetsYet THEN NoResult
    ELSE LET calc == calculatedRoll(props.lastSeed, props.lastClientSeed,
                                    props.lastNonce)
             chainHash == Sha256(props.lastSeed)
         IN  IF ToFixed2(calc) = ToFixed2(props.actualRoll)
             THEN Shown("Math Verified", TRUE, TRUE, chainHash)
             ELSE Shown("MATH FAILED", FALSE, FALSE, NoSeed)

\* ------------------------------------------------------- client App state
\* the balance shown before the first answer: "..."
Loading == <<>>

\* the Game State of App.jsx; isWin is <<>> for null, <<b>> for a boolean
GameState(shownBalance, rollResult, isWin) ==
    [balance |-> shownBalance, rollResult |-> rollResult, isWin |-> isWin]

NoGameState == GameState(Loading, ToFixed2(0), <<>>)

\* the App as useState initialises it
AppMounted ==
    /\ gameState = NoGameState
    /\ history = <<>>
    /\ updates = <<>>

\* the first four setters of updateDashboard
setGameState(data) ==
    GameState(ToFixed2(data.newBalance), ToFixed2(data.roll), <<data.isWin>>)

HistorySize == 15

HistoryRow(data) ==
    [nonce |-> data.nonce, roll |-> data.roll, betAmount |-> data.betAmount,
     profit |-> data.profit, isWin |-> data.isWin]

SliceInclusive(list, from, to) ==
    SubSeq(list, from + 1, IF to + 1 < Len(list) THEN to + 1 ELSE Len(list))
\* Array.prototype.slice(from, to)
Slice(list, from, to) ==
    SubSeq(list, from + 1, IF to < Len(list) THEN to ELSE Len(list))

\* the updater handed to setHistory
setHistory(prev, data) == Slice(<<HistoryRow(data)>> \o prev, 0, HistorySize)

\* ----------------------------------------------------------------- bot.js
\* CONFIG of bot.js, money and target in hundredths
CONFIG ==
    [baseBet |-> 100, target |-> 5000, condition |-> "over",
     maxDoublingSteps |-> 4, stopLoss |-> 5000, takeProfit |-> 10000,
     maxBetSafety |-> 20000]

\* the module-level variables of bot.js and the statement the bot is at:
\* "loop" at the head of the while loop, "await" between fetch and its
\* answer, "finished" after the final report, "off" when no bot runs
Bot(pc, currentBet, consecutiveLosses, totalProfit, totalWins, totalLosses) ==
    [pc |-> pc, currentBet |-> currentBet,
     consecutiveLosses |-> consecutiveLosses, totalProfit |-> totalProfit,
     totalWins |-> totalWins, totalLosses |-> totalLosses]

NoBot == Bot("off", CONFIG.baseBet, 0, 0, 0, 0)

\* what the bot makes of the answer to its fetch: the body does not decode
\* (GameResponse.decode throws, as do BetRequest.verify and fetch), or it
\* decodes to data with an error text, or to the result of a bet
Decoded(error, isWin, profit) ==
    [decodes |-> TRUE, error |-> error, isWin |-> isWin, profit |-> profit]

Undecodable == [decodes |-> FALSE, error |-> "", isWin |-> FALSE, profit |-> 0]

\* rolls below, at and above the bot's target
BotRolls == {0, CONFIG.target, CONFIG.target + 1, FullTarget}

\* the answers a bet of betAmount at CONFIG.target, CONFIG.condition can get
BotAnswers(betAmount) ==
    {Undecodable, Decoded("DB Error", FALSE, 0)} \cup
    {Decoded("", IsWin(CONFIG.condition, r, CONFIG.target),
             Profit(betAmount, CONFIG.condition, r, CONFIG.target)) :
        r \in BotRolls}

LimitHitLate(losses) == losses > CONFIG.maxDoublingSteps
\* if (consecutiveLosses >= CONFIG.maxDoublingSteps)
LimitHit(losses) == losses >= CONFIG.maxDoublingSteps

\* UPDATE STATS and STRATEGY LOGIC (Martingale) for a decoded result
Martingale(b, data) ==
    LET total == b.totalProfit + data.profit
        losses == b.consecutiveLosses + 1
        doubled == b.currentBet * 2
    IN  IF data.isWin
        THEN Bot("loop", CONFIG.baseBet, 0, total, b.totalWins + 1,
                 b.totalLosses)
        ELSE IF LimitHit(losses)
        THEN Bot("loop", CONFIG.baseBet, 0, total, b.totalWins,
                 b.totalLosses + 1)
        ELSE Bot("loop",
                 IF doubled > CONFIG.maxBetSafety THEN CONFIG.baseBet
                 ELSE doubled,
                 losses, total, b.totalWins, b.totalLosses + 1)

\* ------------------------------------------------------------------ Init
\* module load of server.js: chain.json read, cursor at 1, anchor chain[0]
ServerStart(chain) ==
    /\ seedChain = chain
    /\ previousServerSeed = chain[1]
    /\ gameIndex = 1
    /\ protoLoaded = FALSE
    /\ reqs = EmptyBag

Init ==
    /\ \E chain \in GeneratedChains : ServerStart(chain)
    /\ users = [u \in AllUserIds |-> NoUser]
    /\ tokens = {}
    /\ bets = {}
    /\ pendingUpdates = {}
    /\ pendingInserts = {}
    /\ reply = NoAnswer
    /\ emitted = <<>>
    /\ anchorLog = <<>>
    /\ disclosed = {}
    /\ seen = [u \in AllUserIds |-> NoSeen]
    /\ epoch = 0
    /\ verifyProps = NoProps
    /\ verificationResult = NoResult
    /\ hmacDigest = NoDigest
    /\ fairRoll = <<>>
    /\ received = 0
    /\ AppMounted
    /\ bot = NoBot
    /\ gen = NoGen
    /\ chainJson = seedChain

\* --------------------------------------------------------------- actions
\* protobuf.load callback: BetRequest and GameResponse are set
ProtoLoad ==
    /\ ~protoLoaded
    /\ protoLoaded' = TRUE
    /\ reply' = NoAnswer
    /\ UNCHANGED <<seedChain, previousServerSeed, gameIndex, dbVars, tokens,
                   reqs, histVars, epoch, verVars>>

\* POST /api/register: the row is inserted with the default balance; a
\* missing field or a taken username is answered 400 and changes nothing
Register(u, password) ==
    /\ password # 0
    /\ ~users[u].registered
    /\ users' = [users EXCEPT ![u] = UserRow(password)]
    /\ reply' = NoAnswer
    /\ UNCHANGED <<serverVars, tokens, bets, pendingUpdates, pendingInserts,
                   reqs, histVars, epoch, verVars>>

\* POST /api/login: a token is signed when the user exists and the password
\* matches its hash; otherwise the answer is 400 and nothing changes
Login(u, password) ==
    /\ users[u].registered
    /\ BcryptCompare(password, users[u].password_hash)
    /\ tokens' = tokens \cup {u}
    /\ reply' = NoAnswer
    /\ UNCHANGED <<serverVars, dbVars, reqs, histVars, epoch,
                   verVars>>

\* authenticateToken: 401 without a token, 403 on a token jwt.verify rejects,
\* req.user of a token the server signed otherwise
AuthOutcomes == {"401", "403", "ok"}

AnyToken(u) == TRUE
\* jwt.verify calls back without err: the token was signed for user u
HasValidToken(u) == u \in tokens

SchemaAssumed == TRUE
\* the guard if (!BetRequest) of POST /api/bet
SchemaReady == protoLoaded

\* POST /api/bet answered before db.get is called: 401 or 403 from
\* authenticateToken, 500 while the schema is not loaded, or the catch branch
\* when BetRequest.decode throws
BetRefuse(auth, u, body) ==
    /\ auth = "ok" => u \in tokens
    /\ auth # "ok" \/ ~SchemaReady \/ ~body.decodes
    /\ reply' = IF auth # "ok" THEN BetAnswer(auth)
                ELSE IF ~SchemaReady THEN BetAnswer("Proto not loaded")
                ELSE BetAnswer("Invalid Binary Format")
    /\ UNCHANGED <<serverVars, dbVars, tokens, reqs, histVars, epoch,
                   verVars>>

\* POST /api/bet of an authenticated, decodable request, up to the db.get call
BetArrive(u, body) ==
    /\ BagCardinality(reqs) < MaxSlots
    /\ HasValidToken(u)
    /\ SchemaReady
    /\ body.decodes
    /\ reqs' = reqs (+) SetToBag({Request("bet", "get", u, body, NoRow)})
    /\ reply' = NoAnswer
    /\ UNCHANGED <<serverVars, dbVars, tokens, histVars, epoch,
                   verVars>>

\* SELECT balance FROM users WHERE id = ? executes: the row, or an error
BetDbGet(r, fails) ==
    /\ BagIn(r, reqs)
    /\ r.route = "bet"
    /\ r.pc = "get"
    /\ reqs' = (reqs (-) SetToBag({r})) (+)
               SetToBag({[r EXCEPT !.pc = "cb",
                                   !.row = IF fails THEN DbError
                                           ELSE users[r.user].balance]})
    /\ reply' = NoAnswer
    /\ UNCHANGED <<serverVars, dbVars, tokens, histVars, epoch,
                   verVars>>

\* number of accepted bets with a db.run statement still queued
Unwritten ==
    Cardinality({w.nonce : w \in pendingUpdates} \cup
                {w.nonce : w \in pendingInserts})

AcceptBetEmitTwice(r, userBalance, seedUsed, currentNonce) ==
    LET payload == ResponsePayload(userBalance, r.body, seedUsed, currentNonce)
    IN  /\ Unwritten < MaxUnwritten
        /\ pendingUpdates' = pendingUpdates \cup
              {[user_id |-> r.user, balance |-> payload.newBalance,
                nonce |-> currentNonce]}
        /\ pendingInserts' = pendingInserts \cup
              {BetRow(r.user, r.body, seedUsed, currentNonce)}
        /\ previousServerSeed' = NextAnchor(previousServerSeed, seedUsed)
        /\ gameIndex' = NextIndex(gameIndex)
        /\ emitted' = Append(Append(emitted, payload), payload)
        /\ anchorLog' = Append(anchorLog, previousServerSeed)
        /\ disclosed' = disclosed \cup {payload.serverSeedRevealed}
        /\ seen' = [seen EXCEPT ![r.user] = NoSeen]
        /\ reply' = BetAnswer("ok")
\* an accepted bet: both db.run calls, the advance, the broadcast, the answer
AcceptBet(r, userBalance, seedUsed, currentNonce) ==
    LET payload == ResponsePayload(userBalance, r.body, seedUsed, currentNonce)
    IN  /\ Unwritten < MaxUnwritten
        /\ pendingUpdates' = pendingUpdates \cup
              {[user_id |-> r.user, balance |-> payload.newBalance,
                nonce |-> currentNonce]}
        /\ pendingInserts' = pendingInserts \cup
              {BetRow(r.user, r.body, seedUsed, currentNonce)}
        /\ previousServerSeed' = NextAnchor(previousServerSeed, seedUsed)
        /\ gameIndex' = NextIndex(gameIndex)
        /\ emitted' = Append(emitted, payload)
        /\ anchorLog' = Append(anchorLog, previousServerSeed)
        /\ disclosed' = disclosed \cup {payload.serverSeedRevealed}
        /\ seen' = [seen EXCEPT ![r.user] = NoSeen]
        /\ reply' = BetAnswer("ok")

RejectBetConsuming(text) ==
    /\ reply' = BetAnswer(text)
    /\ gameIndex' = gameIndex + 1
    /\ UNCHANGED <<previousServerSeed, pendingUpdates, pendingInserts, histVars>>
\* a bet answered with sendBinaryError: nothing but the answer changes
RejectBet(text) ==
    /\ reply' = BetAnswer(text)
    /\ UNCHANGED <<previousServerSeed, gameIndex, pendingUpdates,
                   pendingInserts, histVars>>

InvalidAmountNoFloor(betAmount, userBalance) == betAmount > userBalance
\* if (betAmount > userBalance || betAmount <= 0)
InvalidAmount(betAmount, userBalance) ==
    betAmount > userBalance \/ betAmount <= 0

\* let userBalance = row.balance with row undefined: the TypeError is thrown
\* inside the callback, outside the handler's try block
ThrowNoRow ==
    /\ reply' = Uncaught
    /\ UNCHANGED <<previousServerSeed, gameIndex, pendingUpdates,
                   pendingInserts, histVars>>

\* the db.get callback of POST /api/bet
BetCallback(r) ==
    /\ BagIn(r, reqs)
    /\ r.route = "bet"
    /\ r.pc = "cb"
    /\ reqs' = reqs (-) SetToBag({r})
    /\ LET userBalance == r.row
           betAmount == r.body.betAmount
           currentNonce == gameIndex
           seedUsed == getCurrentSeed
       IN  IF userBalance = DbError
           THEN RejectBet("DB Error")
           ELSE IF userBalance = NoRow
           THEN ThrowNoRow
           ELSE IF InvalidAmount(betAmount, userBalance)
           THEN RejectBet("Insufficient funds")
           ELSE IF seedUsed = NoSeed
           THEN RejectBet("Casino is out of seeds!")
           ELSE AcceptBet(r, userBalance, seedUsed, currentNonce)
    /\ seedChain' = SeedChainKept(seedChain)
    /\ UNCHANGED <<protoLoaded, users, tokens, bets, epoch, verVars>>

\* sqlite executes a queued UPDATE users SET balance = ? WHERE id = ?
DbUpdate(w) ==
    /\ w \in pendingUpdates
    /\ pendingUpdates' = pendingUpdates \ {w}
    /\ users' = [users EXCEPT ![w.user_id].balance = w.balance]
    /\ reply' = NoAnswer
    /\ UNCHANGED <<serverVars, tokens, bets, pendingInserts, reqs, histVars,
                   epoch, verVars>>

\* sqlite executes a queued INSERT INTO bets
DbInsert(w) ==
    /\ w \in pendingInserts
    /\ pendingInserts' = pendingInserts \ {w}
    /\ bets' = bets \cup {w}
    /\ reply' = NoAnswer
    /\ UNCHANGED <<serverVars, users, tokens, pendingUpdates, reqs, histVars,
                   epoch, verVars>>

\* GET /api/state up to the db.get call (a request without a valid token is
\* answered 401 or 403 by authenticateToken and changes nothing)
StateArrive(u) ==
    /\ BagCardinality(reqs) < MaxSlots
    /\ HasValidToken(u)
    /\ reqs' = reqs (+) SetToBag({Request("state", "get", u, NoBody, NoRow)})
    /\ reply' = NoAnswer
    /\ UNCHANGED <<serverVars, dbVars, tokens, histVars, epoch, verVars>>

\* GET /api/state without a token (401) or with a token jwt.verify rejects
\* (403): authenticateToken answers and never calls next()
StateRefuse(auth) ==
    /\ auth # "ok"
    /\ reply' = Answer("state", auth, NoRow, NoSeed, 0)
    /\ UNCHANGED <<serverVars, dbVars, tokens, reqs, histVars, epoch,
                   verVars>>

\* SELECT balance FROM users WHERE id = ? of /api/state executes
StateDbGet(r, fails) ==
    /\ BagIn(r, reqs)
    /\ r.route = "state"
    /\ r.pc = "get"
    /\ reqs' = (reqs (-) SetToBag({r})) (+)
               SetToBag({[r EXCEPT !.pc = "cb",
                                   !.row = IF fails THEN DbError
                                           ELSE users[r.user].balance]})
    /\ reply' = NoAnswer
    /\ UNCHANGED <<serverVars, dbVars, tokens, histVars, epoch, verVars>>

StateBodyPeek(row) ==
    Answer("state", "ok", row, getCurrentSeed, gameIndex)
StateBodyCount(row) ==
    Answer("state", "ok", row, previousServerSeed, gameIndex - 1)
\* res.json of /api/state
StateBody(row) ==
    Answer("state", "ok", row, previousServerSeed, gameIndex)

StateConsuming ==
    /\ gameIndex' = NextIndex(gameIndex)
    /\ UNCHANGED <<seedChain, previousServerSeed, protoLoaded, dbVars>>
\* the /api/state handler assigns no server variable and issues no db.run
StateReadOnly == UNCHANGED <<serverVars, dbVars>>

\* the db.get callback of GET /api/state: 500 on err, else the snapshot
StateCallback(r) ==
    /\ BagIn(r, reqs)
    /\ r.route = "state"
    /\ r.pc = "cb"
    /\ reqs' = reqs (-) SetToBag({r})
    /\ IF r.row = DbError \/ r.row = NoRow
       THEN /\ reply' = Answer("state", "DB Error", NoRow, NoSeed, 0)
            /\ UNCHANGED <<disclosed, seen>>
       ELSE /\ reply' = StateBody(r.row)
            /\ disclosed' = disclosed \cup {StateBody(r.row).serverSeedHash}
            /\ seen' = [seen EXCEPT ![r.user] =
                            Seen(StateBody(r.row).nonce, Len(emitted))]
    /\ StateReadOnly
    /\ UNCHANGED <<tokens, emitted, anchorLog, epoch, verVars>>

\* GET /api/admin/peek, the request god-bot.js sends to read the seed of the
\* coming bet: server.js registers no such route, so the request is answered
\* 404 and no seed goes out
AdminPeek ==
    /\ reply' = Answer("peek", "Not Found", NoRow, NoSeed, 0)
    /\ UNCHANGED <<serverVars, dbVars, tokens, reqs, histVars, epoch,
                   verVars>>

Next ==
    \/ ProtoLoad
    \/ \E u \in UserIds, p \in Passwords : Register(u, p)
    \/ \E u \in UserIds, p \in Passwords \cup WrongPasswords : Login(u, p)
    \/ \E a \in AuthOutcomes, u \in UserIds, b \in Bodies : BetRefuse(a, u, b)
    \/ \E u \in UserIds, b \in Bodies : BetArrive(u, b)
    \/ \E r \in BagToSet(reqs), f \in BOOLEAN : BetDbGet(r, f)
    \/ \E r \in BagToSet(reqs) : BetCallback(r)
    \/ \E w \in pendingUpdates : DbUpdate(w)
    \/ \E w \in pendingInserts : DbInsert(w)
    \/ \E u \in UserIds : StateArrive(u)
    \/ \E a \in AuthOutcomes : StateRefuse(a)
    \/ \E r \in BagToSet(reqs), f \in BOOLEAN : StateDbGet(r, f)
    \/ \E r \in BagToSet(reqs) : StateCallback(r)
    \/ AdminPeek

Spec == Init /\ [][Next]_vars

\* ------------------------------------------------- failing db.run statements
\* sqlite fails a queued UPDATE (database locked, disk full, ...): db.run was
\* called without a callback, so the handler never learns of it and the
\* balance stays as it was
DbUpdateFail(w) ==
    /\ w \in pendingUpdates
    /\ pendingUpdates' = pendingUpdates \ {w}
    /\ reply' = NoAnswer
    /\ UNCHANGED <<serverVars, users, tokens, bets, pendingInserts, reqs,
                   histVars, epoch, verVars>>

\* sqlite fails a queued INSERT INTO bets: no row is stored
DbInsertFail(w) ==
    /\ w \in pendingInserts
    /\ pendingInserts' = pendingInserts \ {w}
    /\ reply' = NoAnswer
    /\ UNCHANGED <<serverVars, users, tokens, bets, pendingUpdates, reqs,
                   histVars, epoch, verVars>>

NextDbFail ==
    \/ ProtoLoad
    \/ \E u \in UserIds, p \in Passwords : Register(u, p)
    \/ \E u \in UserIds, p \in Passwords : Login(u, p)
    \/ \E u \in UserIds, b \in Bodies : BetArrive(u, b)
    \/ \E r \in BagToSet(reqs), f \in BOOLEAN : BetDbGet(r, f)
    \/ \E r \in BagToSet(reqs) : BetCallback(r)
    \/ \E w \in pendingUpdates : DbUpdate(w)
    \/ \E w \in pendingInserts : DbInsert(w)
    \/ \E w \in pendingUpdates : DbUpdateFail(w)
    \/ \E w \in pendingInserts : DbInsertFail(w)

SpecDbFail == Init /\ [][NextDbFail]_vars

\* ------------------------------------------------ a token without a row
\* a request carries a token that jwt.verify accepts (signed with SECRET_KEY,
\* not expired) for a user id that has no row in the users table: the
\* database file was replaced after the login, or the token was signed with
\* the default key of the source
TokenWithoutRow(u) ==
    /\ ~users[u].registered
    /\ u \notin tokens
    /\ tokens' = tokens \cup {u}
    /\ reply' = NoAnswer
    /\ UNCHANGED <<serverVars, dbVars, reqs, histVars, epoch, verVars>>

NextNoRow ==
    \/ Running /\ ProtoLoad
    \/ Running /\ \E u \in UserIds, p \in Passwords : Register(u, p)
    \/ Running /\ \E u \in UserIds, p \in Passwords : Login(u, p)
    \/ Running /\ \E u \in AllUserIds \ UserIds : TokenWithoutRow(u)
    \/ Running /\ \E u \in AllUserIds, b \in Bodies : BetArrive(u, b)
    \/ Running /\ \E r \in BagToSet(reqs), f \in BOOLEAN : BetDbGet(r, f)
    \/ Running /\ \E r \in BagToSet(reqs) : BetCallback(r)
    \/ Running /\ \E w \in pendingUpdates : DbUpdate(w)
    \/ Running /\ \E w \in pendingInserts : DbInsert(w)

SpecNoRow == Init /\ [][NextNoRow]_vars

\* ------------------------------------------------------------ two clients
\* the bets two players send: they differ in every field of the request
ClientBodies ==
    {Body(TRUE, 100, 5000, "over", 1), Body(TRUE, 250, 2000, "under", 0)}

\* the server started on a database in which both users are registered,
\* each holding a token that has not expired
InitClients ==
    /\ \E chain \in GeneratedChains : ServerStart(chain)
    /\ users = [u \in AllUserIds |-> UserRow(7)]
    /\ tokens = AllUserIds
    /\ bets = {}
    /\ pendingUpdates = {}
    /\ pendingInserts = {}
    /\ reply = NoAnswer
    /\ emitted = <<>>
    /\ anchorLog = <<>>
    /\ disclosed = {}
    /\ seen = [u \in AllUserIds |-> NoSeen]
    /\ epoch = 0
    /\ verifyProps = NoProps
    /\ verificationResult = NoResult
    /\ hmacDigest = NoDigest
    /\ fairRoll = <<>>
    /\ received = 0
    /\ AppMounted
    /\ bot = NoBot
    /\ gen = NoGen
    /\ chainJson = seedChain

NextClients ==
    \/ ProtoLoad
    \/ \E u \in AllUserIds, b \in ClientBodies : BetArrive(u, b)
    \/ \E r \in BagToSet(reqs) : BetDbGet(r, FALSE)
    \/ \E r \in BagToSet(reqs) : BetCallback(r)
    \/ \E w \in pendingUpdates : DbUpdate(w)
    \/ \E w \in pendingInserts : DbInsert(w)
    \/ \E u \in UserIds : StateArrive(u)
    \/ \E r \in BagToSet(reqs) : StateDbGet(r, FALSE)
    \/ \E r \in BagToSet(reqs) : StateCallback(r)

SpecClients == InitClients /\ [][NextClients]_vars

\* ---------------------------------------------------------------- restart
\* The process is stopped and node server.js is started again: chain.json is
\* read again and the module-level state is initialised anew.  The database
\* file and everything already sent to clients stay; requests in flight and
\* statements still queued are gone.
Restart ==
    /\ epoch < MaxRestarts
    /\ epoch' = epoch + 1
    /\ seedChain' = seedChain
    /\ previousServerSeed' = seedChain[1]
    /\ gameIndex' = 1
    /\ protoLoaded' = FALSE
    /\ reqs' = EmptyBag
    /\ pendingUpdates' = {}
    /\ pendingInserts' = {}
    /\ reply' = NoAnswer
    /\ UNCHANGED <<users, tokens, bets, histVars, verVars>>

NextRestart ==
    \/ Restart
    \/ ProtoLoad
    \/ \E u \in UserIds, p \in Passwords : Register(u, p)
    \/ \E u \in UserIds, p \in Passwords : Login(u, p)
    \/ \E u \in UserIds, b \in Bodies : BetArrive(u, b)
    \/ \E r \in BagToSet(reqs) : BetDbGet(r, FALSE)
    \/ \E r \in BagToSet(reqs) : BetCallback(r)
    \/ \E w \in pendingUpdates : DbUpdate(w)
    \/ \E w \in pendingInserts : DbInsert(w)

SpecRestart == Init /\ [][NextRestart]_vars

\* ------------------------------------------------- the verifier on its own
\* a seed with one character changed
\* a digest with one digit changed
Tampered(seed) == seed + 1

VerifierSeeds ==
    ChainEntries \cup {Tampered(e) : e \in ChainEntries}
                 \cup {NoBetsYet, NotHex}

\* the roll the props carry: the one the seed yields, or another one that
\* differs from it in the decimals or in the integer part
VerifierRolls(seed, clientSeed, nonce) ==
    {calculatedRoll(seed, clientSeed, nonce),
     (calculatedRoll(seed, clientSeed, nonce) + 1) % RollModulus,
     (calculatedRoll(seed, clientSeed, nonce) + 100) % RollModulus}

VerifierInputs ==
    UNION {{Props(a, sd, n, c, r) : r \in VerifierRolls(sd, c, n)} :
              a \in ChainEntries, sd \in VerifierSeeds,
              n \in 1..MaxChainSize, c \in ClientSeeds}

InitVerify ==
    /\ ServerStart(GenerateChain(1, 1))
    /\ users = [u \in AllUserIds |-> NoUser]
    /\ tokens = {}
    /\ bets = {}
    /\ pendingUpdates = {}
    /\ pendingInserts = {}
    /\ reply = NoAnswer
    /\ emitted = <<>>
    /\ anchorLog = <<>>
    /\ disclosed = {}
    /\ seen = [u \in AllUserIds |-> NoSeen]
    /\ epoch = 0
    /\ verifyProps \in VerifierInputs
    /\ verificationResult = NoResult
    /\ hmacDigest = NoDigest
    /\ fairRoll = <<>>
    /\ received = 0
    /\ AppMounted
    /\ bot = NoBot
    /\ gen = NoGen
    /\ chainJson = seedChain

\* the Verify Chain & Math button
VerifyClick ==
    /\ verificationResult' = verifyLastBet(verifyProps)
    /\ UNCHANGED <<serverVars, dbVars, tokens, reqs, reply, histVars, epoch,
                   verifyProps, rollVars, received, genVars, appVars, bot>>

NextVerify == VerifyClick

SpecVerify == InitVerify /\ [][NextVerify]_vars

\* ------------------------------------------- the same seed used twice
\* Two users bet with one client seed and different amounts, targets and
\* conditions; the process restarts, after which seeds and indices recur.
ReplayBodies ==
    {Body(TRUE, 100, 5000, "over", 1), Body(TRUE, 250, 2000, "under", 1)}

\* chains short enough for every interleaving of two runs to be explored
InitReplay == InitClients /\ Len(seedChain) <= MaxChainSize

NextReplay ==
    \/ Restart
    \/ ProtoLoad
    \/ \E u \in AllUserIds, b \in ReplayBodies : BetArrive(u, b)
    \/ \E r \in BagToSet(reqs) : BetDbGet(r, FALSE)
    \/ \E r \in BagToSet(reqs) : BetCallback(r)
    \/ \E w \in pendingUpdates : DbUpdate(w)
    \/ \E w \in pendingInserts : DbInsert(w)

SpecReplay == InitReplay /\ [][NextReplay]_vars

\* ------------------------------------------------------ whole-balance bets
\* One user stakes the whole balance, or a small amount, in overlapping
\* requests.
StakeBodies ==
    {Body(TRUE, DefaultBalance, 2000, "under", 1),
     Body(TRUE, 100, 5000, "over", 1)}

NextStakes ==
    \/ ProtoLoad
    \/ \E u \in UserIds, b \in StakeBodies : BetArrive(u, b)
    \/ \E r \in BagToSet(reqs) : BetDbGet(r, FALSE)
    \/ \E r \in BagToSet(reqs) : BetCallback(r)
    \/ \E w \in pendingUpdates : DbUpdate(w)
    \/ \E w \in pendingInserts : DbInsert(w)

SpecStakes == InitClients /\ [][NextStakes]_vars

\* ----------------------------------------------- targets and conditions
\* Bets of one user on the chain generated from secret 1 with CHAIN_SIZE 2.
\* The targets are the middle one, the roll the first bet gets, the bounds
\* 0 and 100, and values outside them; the conditions are over, under and
\* a third string.
PayoutChain == GenerateChain(1, 2)

TieTarget == generateFairRoll(PayoutChain[2], 1, 1)

PayoutBodies ==
    {Body(TRUE, 100, 5000, "over", 1),
     Body(TRUE, 100, TieTarget, "over", 1),
     Body(TRUE, 100, TieTarget, "under", 1),
     Body(TRUE, 100, 0, "over", 1),
     Body(TRUE, 100, 0 - 100, "over", 1),
     Body(TRUE, 100, FullTarget, "under", 1),
     Body(TRUE, 100, FullTarget, "over", 1),
     Body(TRUE, 100, 5000, "between", 1)}

InitPayout == InitClients /\ seedChain = PayoutChain

NextPayout ==
    \/ ProtoLoad
    \/ \E u \in UserIds, b \in PayoutBodies : BetArrive(u, b)
    \/ \E r \in BagToSet(reqs) : BetDbGet(r, FALSE)
    \/ \E r \in BagToSet(reqs) : BetCallback(r)
    \/ \E w \in pendingUpdates : DbUpdate(w)
    \/ \E w \in pendingInserts : DbInsert(w)

SpecPayout == InitPayout /\ [][NextPayout]_vars

\* ------------------------------------------------------- the client App
\* "Hash of: " + serverSeedRevealed.substring(0, 20) + "...": a label that
\* is no digest
HashOfLabel(seed) == 0 - 1000 - seed

\* updateDashboard(data): the fairness state after a game-update
updateDashboard(data) ==
    Props(HashOfLabel(data.serverSeedRevealed), data.serverSeedRevealed,
          data.nonce, data.clientSeed, data.roll)

\* updateDashboard(data) as a whole: game state, fairness state and history
\* (the chart data are not part of the model)
Dashboard(data) ==
    /\ gameState' = setGameState(data)
    /\ verifyProps' = updateDashboard(data)
    /\ history' = setHistory(history, data)
    /\ updates' = Append(updates, data)

AppFrame ==
    UNCHANGED <<serverVars, dbVars, tokens, reqs, histVars, epoch, rollVars,
                genVars, bot>>

\* fetchInitialState, from the answer of GET /api/state on: setBalance and
\* setActiveHash (the chart data are not part of the model)
FetchInitialState ==
    /\ reply.route = "state"
    /\ reply.text = "ok"
    /\ gameState' = [gameState EXCEPT !.balance = ToFixed2(reply.balance)]
    /\ verifyProps' = [verifyProps EXCEPT !.activeHash = reply.serverSeedHash]
    /\ reply' = NoAnswer
    /\ UNCHANGED <<verificationResult, received, history, updates>>
    /\ AppFrame

\* socket.on("game-update"): the next broadcast is decoded and handed to
\* updateDashboard
GameUpdate ==
    /\ received < Len(emitted)
    /\ received' = received + 1
    /\ Dashboard(emitted[received + 1])
    /\ reply' = NoAnswer
    /\ UNCHANGED verificationResult
    /\ AppFrame

\* the Verify Chain & Math button of the panel the App renders
AppVerifyClick ==
    /\ verificationResult' = verifyLastBet(verifyProps)
    /\ reply' = NoAnswer
    /\ UNCHANGED <<verifyProps, received, appVars>>
    /\ AppFrame

NextApp ==
    \/ ProtoLoad
    \/ \E u \in UserIds, b \in ClientBodies : BetArrive(u, b)
    \/ \E r \in BagToSet(reqs) : BetDbGet(r, FALSE)
    \/ \E r \in BagToSet(reqs) : BetCallback(r)
    \/ \E w \in pendingUpdates : DbUpdate(w)
    \/ \E w \in pendingInserts : DbInsert(w)
    \/ \E u \in UserIds : StateArrive(u)
    \/ \E r \in BagToSet(reqs) : StateDbGet(r, FALSE)
    \/ \E r \in BagToSet(reqs) : StateCallback(r)
    \/ FetchInitialState
    \/ GameUpdate
    \/ AppVerifyClick

\* the server started on a chain of at most MaxChainSize seeds, both users
\* registered, the App mounted with its initial state
InitApp == InitClients /\ Len(seedChain) <= MaxChainSize

SpecApp == InitApp /\ [][NextApp]_vars

\* ------------------------------------------ one client, two users betting
\* The App of user ClientUser is mounted and listens on the socket while
\* both users place bets.
ClientUser == 1

NextBroadcast ==
    \/ ProtoLoad
    \/ \E u \in AllUserIds, b \in ClientBodies : BetArrive(u, b)
    \/ \E r \in BagToSet(reqs) : BetDbGet(r, FALSE)
    \/ \E r \in BagToSet(reqs) : BetCallback(r)
    \/ \E w \in pendingUpdates : DbUpdate(w)
    \/ \E w \in pendingInserts : DbInsert(w)
    \/ StateArrive(ClientUser)
    \/ \E r \in BagToSet(reqs) : StateDbGet(r, FALSE)
    \/ \E r \in BagToSet(reqs) : StateCallback(r)
    \/ FetchInitialState
    \/ GameUpdate

InitBroadcast == InitClients /\ Len(seedChain) < MaxChainSize

SpecBroadcast == InitBroadcast /\ [][NextBroadcast]_vars

\* ------------------------------------------------ any sequence of updates
\* The socket handler is run on up to MaxUpdates game-updates, each the
\* payload of a won or a lost bet carrying the next nonce.
UpdateInputs(nonce) ==
    {ResponsePayload(DefaultBalance, b, 1, nonce) : b \in ClientBodies}

\* socket.on("game-update") for a message that did not come from this model's
\* server run
SocketUpdate(data) ==
    /\ Len(updates) < MaxUpdates
    /\ Dashboard(data)
    /\ UNCHANGED <<reply, received, verificationResult>>
    /\ AppFrame

NextHistory == \E data \in UpdateInputs(Len(updates) + 1) : SocketUpdate(data)

InitHistory == InitClients /\ seedChain = GenerateChain(1, 1)

SpecHistory == InitHistory /\ [][NextHistory]_vars

\* ------------------------------------------- a chain.json altered on disk
\* server.js takes whatever array JSON.parse returns: the file the generator
\* wrote, or one in which an element was altered afterwards.
TamperedChains ==
    UNION {{[chain EXCEPT ![k] = Tampered(chain[k])] : k \in DOMAIN chain} :
              chain \in GeneratedChains}

StoredChains == GeneratedChains \cup TamperedChains

InitStored ==
    /\ \E chain \in StoredChains : ServerStart(chain)
    /\ users = [u \in AllUserIds |-> NoUser]
    /\ tokens = {}
    /\ bets = {}
    /\ pendingUpdates = {}
    /\ pendingInserts = {}
    /\ reply = NoAnswer
    /\ emitted = <<>>
    /\ anchorLog = <<>>
    /\ disclosed = {}
    /\ seen = [u \in AllUserIds |-> NoSeen]
    /\ epoch = 0
    /\ verifyProps = NoProps
    /\ verificationResult = NoResult
    /\ hmacDigest = NoDigest
    /\ fairRoll = <<>>
    /\ received = 0
    /\ AppMounted
    /\ bot = NoBot
    /\ gen = NoGen
    /\ chainJson = seedChain

NextStored ==
    \/ ProtoLoad
    \/ \E u \in UserIds, p \in Passwords : Register(u, p)
    \/ \E u \in UserIds, p \in Passwords : Login(u, p)
    \/ \E a \in AuthOutcomes, u \in UserIds, b \in Bodies : BetRefuse(a, u, b)
    \/ \E u \in UserIds, b \in Bodies : BetArrive(u, b)
    \/ \E r \in BagToSet(reqs) : BetDbGet(r, FALSE)
    \/ \E r \in BagToSet(reqs) : BetCallback(r)
    \/ \E w \in pendingUpdates : DbUpdate(w)
    \/ \E w \in pendingInserts : DbInsert(w)

SpecStored == InitStored /\ [][NextStored]_vars

\* ------------------------------------------------------ generate_chain.js
\* The generator is started, with a CHAIN_SIZE of 1..MaxChainSize, next to a
\* chain.json left by an earlier run.
InitGenerate ==
    /\ ServerStart(GenerateChain(1, 1))
    /\ users = [u \in AllUserIds |-> NoUser]
    /\ tokens = {}
    /\ bets = {}
    /\ pendingUpdates = {}
    /\ pendingInserts = {}
    /\ reply = NoAnswer
    /\ emitted = <<>>
    /\ anchorLog = <<>>
    /\ disclosed = {}
    /\ seen = [u \in AllUserIds |-> NoSeen]
    /\ epoch = 0
    /\ verifyProps = NoProps
    /\ verificationResult = NoResult
    /\ hmacDigest = NoDigest
    /\ fairRoll = <<>>
    /\ received = 0
    /\ AppMounted
    /\ bot = NoBot
    /\ \E size \in 1..MaxChainSize : gen = Gen("seed", size, NoSeed, NoSeed, <<>>, 0)
    /\ chainJson = seedChain

GenFrame ==
    UNCHANGED <<serverVars, dbVars, tokens, reqs, reply, histVars, epoch,
                verifyProps, verificationResult, rollVars, received, appVars,
                bot>>

\* let currentSeed = crypto.randomBytes(32).toString('hex'); chain = [currentSeed]
GenSeed(secret) ==
    /\ gen.pc = "seed"
    /\ gen' = Gen("loop", gen.CHAIN_SIZE, secret, secret, <<secret>>, 0)
    /\ UNCHANGED chainJson
    /\ GenFrame

\* one iteration of the for loop
GenHash ==
    /\ gen.pc = "loop"
    /\ LoopGoesOn(gen.i, gen.CHAIN_SIZE)
    /\ gen' = [gen EXCEPT !.currentSeed = Sha256(gen.currentSeed),
                          !.chain = Append(gen.chain, Sha256(gen.currentSeed)),
                          !.i = gen.i + 1]
    /\ UNCHANGED chainJson
    /\ GenFrame

\* loop exit and const reverseChain = chain.reverse()
GenReverse ==
    /\ gen.pc = "loop"
    /\ ~LoopGoesOn(gen.i, gen.CHAIN_SIZE)
    /\ gen' = [gen EXCEPT !.pc = "write", !.chain = Reverse(gen.chain)]
    /\ UNCHANGED chainJson
    /\ GenFrame

\* fs.writeFileSync('chain.json', JSON.stringify(reverseChain, null, 2))
GenWrite ==
    /\ gen.pc = "write"
    /\ chainJson' = gen.chain
    /\ gen' = [gen EXCEPT !.pc = "done"]
    /\ GenFrame

NextGenerate ==
    \/ \E secret \in RandomBytes : GenSeed(secret)
    \/ GenHash
    \/ GenReverse
    \/ GenWrite

SpecGenerate == InitGenerate /\ [][NextGenerate]_vars

\* ----------------------------------------------------------------- bot.js
\* node bot.js: the module-level variables are initialised and protobuf.load
\* is pending.  The answers to the bot's bets are inputs.
BotFrame ==
    UNCHANGED <<serverVars, dbVars, tokens, reqs, reply, histVars, epoch,
                verifyProps, verificationResult, rollVars, received, genVars,
                appVars>>

\* the callback of protobuf.load: process.exit(1) on err, else startBot
BotLoaded(err) ==
    /\ bot.pc = "load"
    /\ bot' = [bot EXCEPT !.pc = IF err THEN "exited" ELSE "loop"]
    /\ BotFrame

\* the head of the while loop up to fetch: the time cap, the stop loss and
\* the take profit end the session, otherwise the bet is sent
BotLoop(timeUp) ==
    /\ bot.pc = "loop"
    /\ bot.totalWins + bot.totalLosses >= MaxIterations => timeUp
    /\ bot' = [bot EXCEPT !.pc =
                  IF \/ timeUp
                     \/ bot.totalProfit <= 0 - CONFIG.stopLoss
                     \/ bot.totalProfit >= CONFIG.takeProfit
                  THEN "finished" ELSE "await"]
    /\ BotFrame

\* from the answer of fetch to the end of the iteration, throttle included
BotAnswer(data) ==
    /\ bot.pc = "await"
    /\ bot' = IF ~data.decodes \/ data.error # ""
              THEN [bot EXCEPT !.pc = "finished"]
              ELSE Martingale(bot, data)
    /\ BotFrame

NextBot ==
    \/ \E err \in BOOLEAN : BotLoaded(err)
    \/ \E timeUp \in BOOLEAN : BotLoop(timeUp)
    \/ \E data \in BotAnswers(bot.currentBet) : BotAnswer(data)

InitBot ==
    /\ ServerStart(GenerateChain(1, 1))
    /\ users = [u \in AllUserIds |-> NoUser]
    /\ tokens = {}
    /\ bets = {}
    /\ pendingUpdates = {}
    /\ pendingInserts = {}
    /\ reply = NoAnswer
    /\ emitted = <<>>
    /\ anchorLog = <<>>
    /\ disclosed = {}
    /\ seen = [u \in AllUserIds |-> NoSeen]
    /\ epoch = 0
    /\ verifyProps = NoProps
    /\ verificationResult = NoResult
    /\ hmacDigest = NoDigest
    /\ fairRoll = <<>>
    /\ received = 0
    /\ AppMounted
    /\ gen = NoGen
    /\ chainJson = seedChain
    /\ bot = Bot("load", CONFIG.baseBet, 0, 0, 0, 0)

SpecBot == InitBot /\ [][NextBot]_vars

\* ------------------------------------------------- the roll of any digest
\* A SHA-256 digest can start with any four bytes: the roll computation is
\* applied to digests drawn from Digests.
InitRoll ==
    /\ ServerStart(GenerateChain(1, 1))
    /\ users = [u \in AllUserIds |-> NoUser]
    /\ tokens = {}
    /\ bets = {}
    /\ pendingUpdates = {}
    /\ pendingInserts = {}
    /\ reply = NoAnswer
    /\ emitted = <<>>
    /\ anchorLog = <<>>
    /\ disclosed = {}
    /\ seen = [u \in AllUserIds |-> NoSeen]
    /\ epoch = 0
    /\ verifyProps = NoProps
    /\ verificationResult = NoResult
    /\ hmacDigest \in Digests
    /\ fairRoll = <<>>
    /\ received = 0
    /\ AppMounted
    /\ bot = NoBot
    /\ gen = NoGen
    /\ chainJson = seedChain

\* lines 129-130 of generateFairRoll applied to the digest
ComputeRoll ==
    /\ fairRoll = <<>>
    /\ fairRoll' = <<RollOf(hmacDigest)>>
    /\ UNCHANGED <<serverVars, dbVars, tokens, reqs, reply, histVars, epoch,
                   verifyProps, verificationResult, hmacDigest, received,
                   genVars, appVars, bot>>

NextRoll == ComputeRoll

SpecRoll == InitRoll /\ [][NextRoll]_vars

\* ================================================================= claims
\* the balance a bet was computed from: userBalance of its callback
BalanceRead(o) == o.newBalance - o.profit

ValidAmount(r) ==
    r.row # DbError /\ r.body.betAmount > 0 /\ r.body.betAmount <= r.row

\* C1: from a fresh start, after k accepted bets gameIndex = 1 + k, the k
\* revealed seeds are chain[1], ..., chain[k] in that order, pairwise
\* distinct, and the i-th bet reports sequence number i.
C1_SeedsInOrder ==
    /\ gameIndex = 1 + Len(emitted)
    /\ \A i \in 1..Len(emitted) :
          /\ emitted[i].serverSeedRevealed = ChainAt(i)
          /\ emitted[i].nonce = i
    /\ \A i, j \in 1..Len(emitted) :
          i # j => emitted[i].serverSeedRevealed # emitted[j].serverSeedRevealed

C1_Witness == Len(emitted) = 3 /\ gameIndex = 4

\* C2: under every interleaving of concurrent bet requests no two accepted
\* bets get the same sequence number or the same server seed.
C2_NoSharedIndex ==
    \A i, j \in 1..Len(emitted) :
        i < j => /\ emitted[i].nonce < emitted[j].nonce
                 /\ emitted[i].serverSeedRevealed # emitted[j].serverSeedRevealed

\* two accepted bets that overlapped: both were computed from the balance
\* read before the other one's UPDATE was executed
C2_Witness ==
    /\ Len(emitted) >= 2
    /\ BalanceRead(emitted[1]) = BalanceRead(emitted[2])
    /\ emitted[1].profit # 0

\* C3: for every accepted bet, with A the anchor served immediately before
\* it, sha256(serverSeedRevealed) = A and the reported roll is the roll of
\* (serverSeedRevealed, clientSeed, nonce), so the verifier reports the math
\* check and the chain check as valid.
C3_RoundTrip ==
    \A i \in 1..Len(emitted) :
        LET o == emitted[i]
            shown == verifyLastBet(Props(anchorLog[i], o.serverSeedRevealed,
                                         o.nonce, o.clientSeed, o.roll))
        IN  /\ Sha256(o.serverSeedRevealed) = anchorLog[i]
            /\ o.roll = generateFairRoll(o.serverSeedRevealed, o.clientSeed,
                                         o.nonce)
            /\ shown.mathValid
            /\ shown.chainValid

C3_Witness ==
    /\ Len(emitted) >= 2
    /\ Sha256(emitted[2].serverSeedRevealed) = emitted[1].serverSeedRevealed
    /\ anchorLog[2] = emitted[1].serverSeedRevealed

\* C4: the verifier reports the chain check as valid only if
\* sha256(revealedSeed) equals the claimed anchor.
C4_ChainCheckedAgainstAnchor ==
    verificationResult.chainValid =>
        Sha256(verifyProps.lastSeed) = verifyProps.activeHash

C6_OneOutcomePerIndex ==
    \A i, j \in 1..Len(emitted) : i # j => emitted[i].nonce # emitted[j].nonce

\* C7 (as claimed): when gameIndex >= len(chain), a bet is answered with
\* "Casino is out of seeds!".
C7_EveryBetExhausted ==
    [][\A r \in BagToSet(reqs) :
          (BetCallback(r) /\ gameIndex >= Len(seedChain)) =>
              reply' = BetAnswer("Casino is out of seeds!")]_vars

\* C7 (amended): when gameIndex >= len(chain), a bet whose balance read
\* succeeded and whose amount is positive and affordable is answered with
\* "Casino is out of seeds!"; that call leaves gameIndex, the anchor and the
\* balance unchanged, records and broadcasts nothing; and from then on no
\* bet is accepted and the cursor and the anchor stay where they are.
C7_Exhausted ==
    [][/\ \A r \in BagToSet(reqs) :
             (BetCallback(r) /\ gameIndex >= Len(seedChain) /\ ValidAmount(r)) =>
                 /\ reply' = BetAnswer("Casino is out of seeds!")
                 /\ UNCHANGED <<gameIndex, previousServerSeed, users, bets,
                                pendingUpdates, pendingInserts, emitted>>
       /\ gameIndex >= Len(seedChain) =>
             UNCHANGED <<gameIndex, previousServerSeed, emitted>>]_vars

\* a chain of size 3: three bets accepted, the fourth out of seeds
C7_Witness ==
    /\ Len(seedChain) = 4
    /\ Len(emitted) = 3
    /\ reply = BetAnswer("Casino is out of seeds!")

\* C8 (as claimed): gameIndex <= len(chain) - 1 in every reachable state.
C8_BelowLength == gameIndex <= Len(seedChain) - 1

\* C8 (amended): 1 <= gameIndex <= len(chain) in every reachable state, and
\* every index a bet consumed is at most len(chain) - 1.
C8_CursorBound ==
    /\ gameIndex \in 1..Len(seedChain)
    /\ \A i \in 1..Len(emitted) : emitted[i].nonce <= Len(seedChain) - 1

C8_Witness ==
    /\ Len(seedChain) = 4
    /\ gameIndex = Len(seedChain)
    /\ emitted[3].nonce = Len(seedChain) - 1

\* C9: every step leaves gameIndex unchanged or increases it by exactly 1,
\* and it increases exactly in the step that accepts a bet.
C9_CursorSteps ==
    [][/\ gameIndex' \in {gameIndex, gameIndex + 1}
       /\ gameIndex' # gameIndex <=>
             /\ reply' = BetAnswer("ok")
             /\ emitted' # emitted
       /\ emitted' # emitted => Len(emitted') = Len(emitted) + 1]_vars

\* a bet rejected after two bets were accepted
C9_Witness ==
    /\ gameIndex = 3
    /\ reply = BetAnswer("Insufficient funds")

\* C10: the anchor served by the state query is chain[gameIndex - 1]:
\* chain[0] before any bet, chain[k] after the k-th accepted bet.
C10_AnchorIsLastRevealed ==
    /\ previousServerSeed = ChainAt(gameIndex - 1)
    /\ previousServerSeed = ChainAt(Len(emitted))
    /\ (reply.route = "state" /\ reply.text = "ok") =>
          /\ reply.serverSeedHash = ChainAt(gameIndex - 1)
          /\ reply.nonce = gameIndex

C10_Witness ==
    /\ reply.route = "state"
    /\ reply.text = "ok"
    /\ reply.nonce = 2
    /\ reply.serverSeedHash = ChainAt(1)
    /\ reply.serverSeedHash # ChainAt(0)

Quiescent ==
    /\ reqs = EmptyBag
    /\ pendingUpdates = {}
    /\ pendingInserts = {}

\* C12: once every bet request has been fully processed, index n has been
\* passed by the cursor if and only if a bet row with nonce n, seed chain[n]
\* and its roll is stored, also when the UPDATE or the INSERT fails.
C12_AdvanceIffRecorded ==
    Quiescent =>
        /\ \A n \in 1..(gameIndex - 1) :
              \E row \in bets :
                  /\ row.nonce = n
                  /\ row.server_seed = ChainAt(n)
                  /\ row.roll = generateFairRoll(row.server_seed,
                                                 row.client_seed, n)
        /\ \A row \in bets : row.nonce \in 1..(gameIndex - 1)

\* C13: the sequence number used for the roll and reported in the outcome is
\* the server's gameIndex at the moment of consumption, and the seed consumed
\* is chain[gameIndex]: whatever the request carries (betAmount, target,
\* condition, clientSeed, user), an accepted bet consumes the index the
\* cursor points at.
C13_CursorIsTheSequenceNumber ==
    [][\A r \in BagToSet(reqs) :
          (BetCallback(r) /\ emitted' # emitted) =>
              LET o == emitted'[Len(emitted')] IN
              /\ o.nonce = gameIndex
              /\ o.serverSeedRevealed = ChainAt(gameIndex)
              /\ o.roll = generateFairRoll(ChainAt(gameIndex),
                                           r.body.clientSeed, gameIndex)
              /\ gameIndex' = gameIndex + 1]_vars

\* two accepted bets whose requests differ in amount, target, condition and
\* client seed, numbered by the cursor
C13_Witness ==
    /\ Len(emitted) = 2
    /\ emitted[1].betAmount # emitted[2].betAmount
    /\ emitted[1].clientSeed # emitted[2].clientSeed
    /\ emitted[1].nonce = 1
    /\ emitted[2].nonce = 2

\* C14 (as claimed): a client that obtained gameIndex = n from the state
\* query has its next accepted bet numbered n, whatever the server processed
\* in between.
C14_NextBetUsesSeenIndex ==
    [][\A r \in BagToSet(reqs) :
          (BetCallback(r) /\ emitted' # emitted /\ seen[r.user] # NoSeen) =>
              emitted'[Len(emitted')].nonce = seen[r.user].nonce]_vars

\* C14 (amended): a client that obtained gameIndex = n from the state query
\* has its next accepted bet numbered n + j, where j is the number of bets
\* (of any user) accepted between the answer to the query and that bet; the
\* number is n exactly when no bet was accepted in between.
C14_NextBetUsesSeenIndexPlusAccepted ==
    [][\A r \in BagToSet(reqs) :
          (BetCallback(r) /\ emitted' # emitted /\ seen[r.user] # NoSeen) =>
              emitted'[Len(emitted')].nonce =
                  seen[r.user].nonce + (Len(emitted) - seen[r.user].accepted)]_vars

\* user 1 was told nonce 1, user 2's bet was accepted in between, and user 1's
\* next bet got nonce 2
C14_Witness ==
    /\ Len(emitted) = 2
    /\ Len(seedChain) >= 3
    /\ reply = BetAnswer("ok")
    /\ \E w \in pendingUpdates : w.user_id = 1 /\ w.nonce = 2
    /\ \E row \in bets : row.user_id = 2 /\ row.nonce = 1
    /\ seen[1] = NoSeen
    /\ disclosed = {ChainAt(0), ChainAt(1), ChainAt(2)}

\* C15: no failure of an authenticated bet request (undecodable body, DB read
\* error, balance query returning no row, exhausted chain) is thrown out of
\* the handler or leaves the request unanswered: every request that has left
\* the handler was answered with an outcome or an error value.
C15_NoFailureThrown == reply # Uncaught

\* C16: the verifier reports the math check and the chain check as two
\* separately observable results: the report shown for a bet whose roll
\* recomputes but whose seed does not hash to the anchor, and the report
\* shown for a bet whose seed hashes to the anchor but whose roll does not
\* recompute, differ from each other and from the report of a valid bet.
C16_TwoSeparateResults ==
    LET p == verifyProps
        roll == calculatedRoll(p.lastSeed, p.lastClientSeed, p.lastNonce)
        mathOk == ToFixed2(roll) = ToFixed2(p.actualRoll)
        chainOk == Sha256(p.lastSeed) = p.activeHash
        \* the reports of the same bet made fully valid, and made invalid
        \* in its roll only
        validReport == verifyLastBet(Props(Sha256(p.lastSeed), p.lastSeed,
                                          p.lastNonce, p.lastClientSeed, roll))
        badRollReport == verifyLastBet(Props(Sha256(p.lastSeed), p.lastSeed,
                                            p.lastNonce, p.lastClientSeed,
                                            (roll + 1) % RollModulus))
    IN  (verificationResult # NoResult /\ mathOk /\ ~chainOk) =>
            /\ verificationResult # validReport
            /\ verificationResult # badRollReport

\* C18: the server's roll function and the verifier's roll computation are
\* the same function: for every (serverSeed, clientSeed, nonce) the integer
\* readUInt32BE(0) reads from the digest is the integer parseInt reads from
\* its first 8 hex characters, and both return it modulo 10001.
C18_SameRollFunction ==
    verifyProps.lastSeed # NoBetsYet =>
        LET p == verifyProps
            buffer == HmacSha256(p.lastSeed, p.lastClientSeed, p.lastNonce)
        IN  /\ readUInt32BE(buffer, 0) =
                   ParseInt16(Substring(ToHex(buffer), 0, 8))
            /\ generateFairRoll(p.lastSeed, p.lastClientSeed, p.lastNonce) =
                   calculatedRoll(p.lastSeed, p.lastClientSeed, p.lastNonce)

\* a digest whose first byte has its top bit set and whose bytes are read in
\* an order that matters, verified by the panel
C18_Witness ==
    LET p == verifyProps
        buffer == HmacSha256(p.lastSeed, p.lastClientSeed, p.lastNonce)
    IN  /\ p.lastSeed # NoBetsYet
        /\ buffer[1] >= 128
        /\ readUInt32BE(buffer, 0) # readUInt32LE(buffer, 0)
        /\ buffer[3] < 16
        /\ verificationResult.mathValid
        /\ p.actualRoll = generateFairRoll(p.lastSeed, p.lastClientSeed,
                                           p.lastNonce)

\* C17: the verifier's math check passes if and only if the roll recomputed
\* from (revealedSeed, clientSeed, sequenceNumber) equals the claimed roll as
\* a 2-decimal value; any other claimed 2-decimal value makes it fail.
C17_MathCheck ==
    (verifyProps.lastSeed # NoBetsYet /\ verificationResult # NoResult) =>
        LET p == verifyProps
            recomputed == generateFairRoll(p.lastSeed, p.lastClientSeed,
                                           p.lastNonce)
        IN  /\ verificationResult.mathValid <=> (recomputed = p.actualRoll)
            /\ verificationResult.mathValid <=>
                   verificationResult.text = "Math Verified"
            /\ ~verificationResult.mathValid <=>
                   verificationResult.text = "MATH FAILED"

\* a claimed roll one hundredth off the recomputed one is refused
C17_Witness ==
    /\ verifyProps.lastSeed # NoBetsYet
    /\ verifyProps.actualRoll =
           generateFairRoll(verifyProps.lastSeed, verifyProps.lastClientSeed,
                            verifyProps.lastNonce) + 1
    /\ verificationResult.text = "MATH FAILED"
    /\ ~verificationResult.mathValid

\* C19: for every unsigned 32-bit integer R the roll R mod 10001 is a whole
\* number of hundredths in 0..10000 (0.00 to 100.00), and no bet outcome
\* carries a roll outside that range.
C19_RollInRange ==
    /\ fairRoll # <<>> =>
           /\ fairRoll[1] \in 0..(RollModulus - 1)
           \* below 2^31 the remainder can be taken directly
           /\ hmacDigest[1] < 128 =>
                  fairRoll[1] = (((hmacDigest[1] * 256 + hmacDigest[2]) * 256
                                  + hmacDigest[3]) * 256 + hmacDigest[4])
                                % RollModulus
    /\ \A i \in DOMAIN emitted : emitted[i].roll \in 0..(RollModulus - 1)

\* the largest integer, 2^32 - 1 = 429453 * 10001 + 7842, has been rolled
C19_Witness ==
    /\ hmacDigest = <<255, 255, 255, 255>>
    /\ fairRoll = <<7842>>

\* C20: the roll of a bet is a function of (serverSeed, clientSeed,
\* sequenceNumber) only: two bets processed with the same three values get
\* the same roll, whatever their amount, target, condition, user or balance
\* and whatever was processed before them.
C20_RollDependsOnTripleOnly ==
    /\ \A i, j \in DOMAIN emitted :
           (/\ emitted[i].serverSeedRevealed = emitted[j].serverSeedRevealed
            /\ emitted[i].clientSeed = emitted[j].clientSeed
            /\ emitted[i].nonce = emitted[j].nonce)
               => emitted[i].roll = emitted[j].roll
    /\ \A i \in DOMAIN emitted :
           emitted[i].roll = generateFairRoll(emitted[i].serverSeedRevealed,
                                              emitted[i].clientSeed,
                                              emitted[i].nonce)

\* two bets with the same three values that differ in amount and balance,
\* with another bet processed between them, and two recorded for two users
\* with different targets and conditions
C20_Witness ==
    /\ \E i, j \in DOMAIN emitted :
           /\ i + 1 < j
           /\ emitted[i].serverSeedRevealed = emitted[j].serverSeedRevealed
           /\ emitted[i].clientSeed = emitted[j].clientSeed
           /\ emitted[i].nonce = emitted[j].nonce
           /\ emitted[i].betAmount # emitted[j].betAmount
           /\ BalanceRead(emitted[i]) # BalanceRead(emitted[j])
    /\ \E a, b \in bets :
           /\ a.server_seed = b.server_seed
           /\ a.client_seed = b.client_seed
           /\ a.nonce = b.nonce
           /\ a.user_id # b.user_id
           /\ a.target # b.target
           /\ a.condition # b.condition
           /\ a.roll = b.roll

\* C21: every chain written by the generator satisfies
\* sha256(chain[i]) = chain[i-1] for all i in 1..N.
C21_WrittenChainIsLinked ==
    gen.pc = "done" =>
        /\ Len(chainJson) > 1
        /\ \A k \in 2..Len(chainJson) : Sha256(chainJson[k]) = chainJson[k - 1]

\* a chain of the largest size has been written
C21_Witness ==
    /\ gen.pc = "done"
    /\ gen.CHAIN_SIZE = MaxChainSize
    /\ Len(chainJson) = MaxChainSize + 1
    /\ Sha256(chainJson[2]) = chainJson[1]

RECURSIVE HashTimes(_, _)
\* the hash applied n times to s
HashTimes(s, n) == IF n = 0 THEN s ELSE HashTimes(Sha256(s), n - 1)

\* C22: the generator run with chain size N writes exactly N+1 seeds; index
\* N is the randomly drawn terminal secret and index 0 (the anchor) is the
\* hash applied N times to that secret.
C22_ChainShape ==
    gen.pc = "done" =>
        /\ Len(chainJson) = gen.CHAIN_SIZE + 1
        /\ chainJson[gen.CHAIN_SIZE + 1] = gen.randomBytes
        /\ chainJson[1] = HashTimes(gen.randomBytes, gen.CHAIN_SIZE)
        /\ chainJson = GenerateChain(gen.randomBytes, gen.CHAIN_SIZE)

\* a chain of size 2 drawn from secret 5 has been written: 23, 11, 5
C22_Witness ==
    /\ gen.pc = "done"
    /\ gen.CHAIN_SIZE = 2
    /\ gen.randomBytes = 5
    /\ chainJson = <<23, 11, 5>>

\* C23: after the chain has been loaded no operation of the runtime changes
\* an element or the length of the chain; only gameIndex and the anchor
\* reference change, and chain[0] stays the value first published.
C23_ChainNeverMutated ==
    [][/\ seedChain' = seedChain
       /\ chainJson' = chainJson
       /\ anchorLog' # <<>> => anchorLog'[1] = seedChain'[1]]_vars

\* bets were accepted and rejected, cursor and anchor moved, and a state
\* query was answered afterwards
C23_Witness ==
    /\ gameIndex = 3
    /\ previousServerSeed # seedChain[1]
    /\ anchorLog[1] = seedChain[1]
    /\ reply.route = "state"
    /\ reply.nonce = gameIndex
    /\ users[1].registered

RECURSIVE ProfitSum(_)
\* the sum of the profit column over a set of bet rows
ProfitSum(rows) ==
    IF rows = {} THEN 0
    ELSE LET row == CHOOSE x \in rows : TRUE
         IN  row.profit + ProfitSum(rows \ {row})

\* C24: no accepted bet's balance change is lost: once all balance writes
\* have been applied, the stored balance of every user equals the balance
\* before the bets plus the sum of the profits of that user's accepted bets.
C24_NoLostUpdate ==
    Quiescent =>
        \A u \in AllUserIds :
            users[u].registered =>
                users[u].balance =
                    DefaultBalance + ProfitSum({row \in bets : row.user_id = u})

\* sha256(chain[i]) = chain[i-1] for every i in 1..N
ChainLinked(chain) ==
    \A k \in 2..Len(chain) : Sha256(chain[k]) = chain[k - 1]

\* C25: a bet is accepted only after the chain was loaded and validated for
\* the hash-chain invariant: a persisted chain in which some sha256(chain[i])
\* differs from chain[i-1] never has a seed consumed from it.
C25_OnlyValidatedChainsConsumed ==
    gameIndex > 1 => ChainLinked(seedChain)

\* digests and secrets are the non-negative values of the model
IsHexDigest(seed) == seed >= 0

\* C26: malformed verification input (a seed that is not a hex digest of the
\* right length) is rejected before any roll or hash is computed and is
\* never coerced into a value that is then used.
C26_MalformedInputRejected ==
    ~IsHexDigest(verifyProps.lastSeed) =>
        /\ verificationResult.text \notin {"Math Verified", "MATH FAILED"}
        /\ verificationResult.chainHash = NoSeed

\* C27: when a client verifies bet n, the previous anchor it holds is the
\* anchor disclosed before bet n was placed, chain[n-1]; it is never a value
\* derived from the seed revealed by bet n itself.
C27_AnchorPredatesBet ==
    (/\ verifyProps.lastSeed # NoBetsYet
     /\ verificationResult # NoResult
     /\ verificationResult = verifyLastBet(verifyProps))
        => verifyProps.activeHash = ChainAt(verifyProps.lastNonce - 1)

\* C28: every accepted bet is broadcast as exactly one game-update, the
\* updates are emitted in increasing sequence-number order, and a rejected
\* bet (invalid amount, exhausted chain, undecodable body, schema not
\* loaded) emits no game-update.
C28_OneBroadcastPerAcceptedBet ==
    [][/\ (gameIndex' # gameIndex) <=> (Len(emitted') = Len(emitted) + 1)
       /\ (pendingInserts' \ pendingInserts # {})
              <=> (Len(emitted') = Len(emitted) + 1)
       /\ Len(emitted') = Len(emitted) + 1 =>
              /\ SubSeq(emitted', 1, Len(emitted)) = emitted
              /\ emitted'[Len(emitted')].nonce = gameIndex
              /\ \A i \in DOMAIN emitted :
                     emitted[i].nonce < emitted'[Len(emitted')].nonce
              /\ reply' = BetAnswer("ok")
       /\ Len(emitted') # Len(emitted) + 1 => emitted' = emitted
       /\ (reply'.route = "bet" /\ reply' # BetAnswer("ok")) =>
              emitted' = emitted]_vars

\* two bets were broadcast in order, and a later bet was rejected without
\* a broadcast
C28_Witness ==
    /\ Len(emitted) = 2
    /\ emitted[1].nonce = 1
    /\ emitted[2].nonce = 2
    /\ reply = BetAnswer("Insufficient funds")
    /\ gameIndex = 3

\* the /api/state requests in flight, with their multiplicities
StateReqs ==
    [r \in {x \in BagToSet(reqs) : x.route = "state"} |-> CopiesIn(r, reqs)]

\* C29: the public state query is read-only: it returns (balance, anchor,
\* gameIndex) and changes neither gameIndex, nor the anchor, nor the chain,
\* nor any balance or bet record.
C29_StateQueryReadOnly ==
    [][(StateReqs' # StateReqs) =>
          /\ UNCHANGED <<seedChain, previousServerSeed, gameIndex, users,
                         bets, pendingUpdates, pendingInserts, emitted>>
          /\ reply'.route = "state" /\ reply'.text = "ok" =>
                 /\ reply'.nonce = gameIndex
                 /\ reply'.serverSeedHash = previousServerSeed
                 /\ \E r \in BagToSet(reqs) :
                        /\ r.route = "state" /\ r.pc = "cb"
                        /\ r.row = reply'.balance]_vars

\* a state query answered after a bet: the moved anchor, the moved cursor
\* and the new balance are reported, and nothing has been consumed by it
C29_Witness ==
    /\ reply.route = "state"
    /\ reply.text = "ok"
    /\ reply.nonce = 2
    /\ gameIndex = 2
    /\ reply.serverSeedHash = ChainAt(1)
    /\ reply.balance = users[1].balance
    /\ reply.balance # DefaultBalance
    /\ Len(emitted) = 1

\* C30: under every interleaving of bet requests of one user, no bet is
\* accepted whose amount exceeds the balance that user has when the bet's
\* balance write is applied; consequently a stored balance is never
\* negative.
C30_NoBetBeyondBalance ==
    [][/\ \A w \in pendingUpdates \ pendingUpdates' :
              \A i \in DOMAIN emitted :
                  emitted[i].nonce = w.nonce =>
                      emitted[i].betAmount <= users[w.user_id].balance
       /\ \A u \in AllUserIds :
              users'[u].registered => users'[u].balance >= 0]_vars

\* the bet request whose callback accepted a bet in this step
Accepted(r) ==
    /\ BagIn(r, reqs)
    /\ r.route = "bet"
    /\ r.pc = "cb"
    /\ reqs' = reqs (-) SetToBag({r})
    /\ Len(emitted') = Len(emitted) + 1

\* C31: for every accepted bet, isWin holds exactly when (over and roll >
\* target) or (under and roll < target), so a roll equal to the target
\* loses; profit is -betAmount on a loss and betAmount * multiplier -
\* betAmount on a win, the multiplier being 99 / (100 - target) for over and
\* 99 / target for under; newBalance = balance before the bet + profit.
C31_WinAndProfit ==
    [][\A r \in BagToSet(reqs) :
          Accepted(r) =>
              LET o == emitted'[Len(emitted')]
                  b == r.body
              IN  /\ o.isWin <=> \/ b.condition = "over" /\ o.roll > b.target
                                 \/ b.condition = "under" /\ o.roll < b.target
                  /\ ~o.isWin => o.profit = 0 - b.betAmount
                  /\ (o.isWin /\ b.condition = "over") =>
                         o.profit = (b.betAmount * HouseEdge)
                                       \div (FullTarget - b.target)
                                    - b.betAmount
                  /\ (o.isWin /\ b.condition = "under") =>
                         o.profit = (b.betAmount * HouseEdge) \div b.target
                                    - b.betAmount
                  /\ o.newBalance = r.row + o.profit]_vars

\* a bet whose roll equals its target has been accepted and lost, after a
\* bet that won
C31_Witness ==
    /\ Len(emitted) = 2
    /\ emitted[1].roll = TieTarget
    /\ \E row \in bets :
           /\ row.nonce = 1
           /\ row.target = TieTarget
           /\ row.roll = TieTarget
           /\ row.profit = 0 - row.bet_amount
    /\ ~emitted[1].isWin
    /\ emitted[2].isWin
    /\ emitted[2].profit > 0

\* C32: for every accepted bet, isWin implies profit > 0 and newBalance >
\* balance before the bet, for every target the request can carry,
\* including targets at or outside the bounds 0 and 100.
C32_WinPaysMore ==
    \A i \in DOMAIN emitted :
        emitted[i].isWin =>
            /\ emitted[i].profit > 0
            /\ emitted[i].newBalance > BalanceRead(emitted[i])

\* C33: every bet that consumes a seed has condition over or under: a
\* request with any other condition is rejected without consuming a seed
\* and without changing the balance.
C33_OnlyOverOrUnderConsumes ==
    \A row \in bets \cup pendingInserts :
        row.condition \in {"over", "under"}

\* C34: a bet request that arrives before the protobuf schema is loaded is
\* answered "Proto not loaded" and changes nothing: no seed is consumed, the
\* cursor, the anchor and all balances stay, nothing is broadcast, and no bet
\* request is in the handler while the schema is missing.
ProtoNotLoaded == BetAnswer("Proto not loaded")

C34_ProtoNotLoadedChangesNothing ==
    [][/\ (reply' = ProtoNotLoaded /\ reply' # reply) =>
            /\ ~protoLoaded
            /\ UNCHANGED <<serverVars, dbVars, reqs, emitted, disclosed>>
       /\ ~protoLoaded' =>
            /\ \A r \in BagToSet(reqs') : r.route # "bet"
            /\ UNCHANGED <<seedChain, previousServerSeed, gameIndex, bets,
                           pendingUpdates, pendingInserts, emitted>>]_vars

C34_Witness ==
    /\ reply = ProtoNotLoaded
    /\ ~protoLoaded
    /\ 1 \in tokens
    /\ users[1] # NoUser

\* C35: a bet or state request without a token (401) or with an invalid token
\* (403) never reaches the handler: every request in a handler belongs to a
\* user holding a token, and the refusal consumes no seed, changes neither
\* cursor, anchor nor balances, and carries neither the anchor nor the index.
RefusedByAuth(a) == a.route \in {"bet", "state"} /\ a.text \in {"401", "403"}

C35_UnauthenticatedChangesNothing ==
    [][/\ (RefusedByAuth(reply') /\ reply' # reply) =>
            /\ UNCHANGED <<serverVars, dbVars, reqs, emitted, disclosed>>
            /\ reply'.serverSeedHash = NoSeed
            /\ reply'.nonce = 0
            /\ reply'.balance = NoRow
       /\ \A r \in BagToSet(reqs') : r.user \in tokens']_vars

C35_Witness ==
    /\ reply = Answer("state", "403", NoRow, NoSeed, 0)
    /\ gameIndex = 2
    /\ reqs # EmptyBag

\* the user of the bet a game-update reports: the user_id of the bets row
\* inserted with the update's nonce
UserOf(data) ==
    LET rows == {b \in bets \cup pendingInserts : b.nonce = data.nonce}
    IN  IF rows = {} THEN 0 ELSE (CHOOSE b \in rows : TRUE).user_id

\* C36: a game-update for a bet of a different user never changes the
\* balance, the last roll or the verification data this client shows.
C36_OnlyOwnBetsShown ==
    [][(/\ received < Len(emitted)
        /\ received' = received + 1
        /\ UserOf(emitted[received + 1]) \in AllUserIds \ {ClientUser})
        => UNCHANGED <<gameState, verifyProps>>]_vars

\* C37: after any sequence of game-updates the history holds at most
\* HistorySize rows, and they are the rows of the most recently handled
\* updates (all of them if fewer were handled), newest first.
C37_HistoryIsLastFifteen ==
    /\ Len(history) =
          (IF Len(updates) < HistorySize THEN Len(updates) ELSE HistorySize)
    /\ \A i \in 1..Len(history) :
          history[i] = HistoryRow(updates[Len(updates) - i + 1])

C37_Witness ==
    /\ Len(updates) > HistorySize
    /\ Len(history) = HistorySize
    /\ history[1].nonce = Len(updates)
    /\ history[1].isWin # history[2].isWin

RECURSIVE Pow2(_)
Pow2(n) == IF n = 0 THEN 1 ELSE 2 * Pow2(n - 1)

\* at the head of the loop and while a bet is out, currentBet is
\* baseBet * 2^consecutiveLosses, below the doubling limit and the safety cap
BetFollowsLosses ==
    bot.pc \in {"loop", "await"} =>
        /\ bot.consecutiveLosses \in 0..(CONFIG.maxDoublingSteps - 1)
        /\ bot.currentBet = CONFIG.baseBet * Pow2(bot.consecutiveLosses)
        /\ bot.currentBet \in {100, 200, 400, 800}
        /\ bot.currentBet <= CONFIG.maxBetSafety

\* a win, and the loss that reaches the doubling limit, reset the bet
ResetAfterWinOrLimit ==
    (/\ bot.pc = "await"
     /\ bot'.pc = "loop"
     /\ \/ bot'.totalWins = bot.totalWins + 1
        \/ bot.consecutiveLosses + 1 = CONFIG.maxDoublingSteps)
    => /\ bot'.currentBet = CONFIG.baseBet
       /\ bot'.consecutiveLosses = 0

\* C38: at the start of every iteration of the bot currentBet is
\* baseBet * 2^consecutiveLosses with consecutiveLosses below
\* maxDoublingSteps, so every bet sent is 1, 2, 4 or 8 and at most
\* maxBetSafety; after a win and after the maxDoublingSteps-th loss in a row
\* the next bet is baseBet and consecutiveLosses is 0.
C38_MartingaleBounded == []BetFollowsLosses /\ [][ResetAfterWinOrLimit]_vars

C38_Witness ==
    /\ bot.pc = "await"
    /\ bot.currentBet = CONFIG.baseBet
    /\ bot.totalLosses = 2 * CONFIG.maxDoublingSteps
    /\ bot.totalWins = 1

\* C39: the bot sends a bet only in an iteration that starts with
\* -stopLoss < totalProfit < takeProfit, sends no further bet once a limit is
\* reached or the server has answered with an error, and its total loss
\* never exceeds stopLoss.
C39_StopLossBoundsLoss ==
    /\ [](bot.pc = "await" =>
            /\ bot.totalProfit > 0 - CONFIG.stopLoss
            /\ bot.totalProfit < CONFIG.takeProfit)
    /\ [][bot.pc = "finished" => bot'.pc = "finished"]_vars
    /\ [](bot.totalProfit >= 0 - CONFIG.stopLoss)

====
